---- MODULE Spec2Model ----
(***************************************************************************)
(* A model of the field-field_value codec and memo reader of dbase-rs            *)
(* (src/record/field.rs).  Bytes are integers 0..255, byte strings are     *)
(* sequences of bytes.  Each component of the codec is exercised by its    *)
(* own specification; the variable `component` says which one is running.  *)
(***************************************************************************)
EXTENDS Integers, Sequences, FiniteSets, TLC

VARIABLES
    component,      \* which part of the codec this behaviour exercises
    pc,             \* the operation that completed last ("start": none yet)
    date,           \* calendar: the Date handed to to_julian_day_number
    jdn,            \* calendar: outcome of to_julian_day_number
    gdate,          \* calendar: outcome of julian_day_number_to_gregorian_date
    bytes,          \* trim: the slice handed to trim_field_data
    trimmed,        \* trim: the slice trim_field_data returned
    field_value,    \* codec: the FieldValue handed to write_as
    descriptor,     \* codec: the descriptor of the field
    dst_before,     \* codec: the destination before write_as
    dst,            \* codec: the destination after write_as
    write_result,   \* codec: outcome of write_as, with the bytes it wrote
    slot,           \* codec: the slot handed to read_from
    read_result,    \* codec: outcome of read_from
    table_encoding, \* codec: the encoding the table is read and written in
    text,           \* codec: the text handed to encoded_bytes
    encoded_text,   \* codec: outcome of encoded_bytes
    encoding_label, \* writer: the label the builder was asked for
    builder,        \* writer: outcome of TableWriterBuilder::new_with_label
    records_written, \* writer: the number of records written
    time_of_day,    \* time: the Time handed to to_time_word
    word_written,   \* time: the time word of it
    time_read,      \* time: outcome of from_word on the word
    memo,           \* the MemoReader (NoReader: no memo file is open)
    block_index,    \* memo: the block index of the last lookup
    io_fault,       \* memo: whether the device failed during the last lookup
    memo_result     \* memo: outcome of the last read_data_at

calendar_vars == <<date, jdn, gdate>>
trim_vars == <<bytes, trimmed>>
codec_vars ==
    <<field_value, descriptor, dst_before, dst, write_result, slot, read_result,
      table_encoding, text, encoded_text>>
memo_vars == <<block_index, io_fault, memo_result>>
writer_vars == <<encoding_label, builder, records_written>>
time_vars == <<time_of_day, word_written, time_read>>

vars ==
    <<component, pc, calendar_vars, trim_vars, codec_vars, memo, memo_vars,
      writer_vars, time_vars>>

(***************************************************************************)
(* Outcomes of a call: a value, an error value, or a panic.                *)
(***************************************************************************)
\* `v` is the value of an Ok outcome; the others carry a default of its type.
Ok(v) == [kind |-> "Ok", err |-> "", v |-> v]
Err(e, dflt) == [kind |-> "Err", err |-> e, v |-> dflt]
Panic(dflt) == [kind |-> "Panic", err |-> "", v |-> dflt]

(***************************************************************************)
(* Machine integers.  TLC's integers are 32-bit signed, so a u32 is kept   *)
(* as two 16-bit limbs with a flag `ovf` recording that some operation on  *)
(* the way wrapped (a build with overflow checks panics there, a build     *)
(* without them goes on with the wrapped value).                           *)
(***************************************************************************)
Limb == 65536
I32_MAX == 2147483647

\* the 32 bits of n, an integer in -2^31 .. 2^31 - 1
U32Of(n) == [hi |-> (n \div Limb) % Limb, lo |-> n % Limb, ovf |-> FALSE]

U32Add(a, b) ==
    LET lo == a.lo + b.lo
        hi == a.hi + b.hi + (lo \div Limb)
    IN  [hi |-> hi % Limb, lo |-> lo % Limb, ovf |-> a.ovf \/ b.ovf \/ hi >= Limb]

U32Sub(a, b) ==
    LET lo == a.lo - b.lo
        hi == a.hi - b.hi - (IF lo < 0 THEN 1 ELSE 0)
    IN  [hi |-> hi % Limb, lo |-> lo % Limb, ovf |-> a.ovf \/ b.ovf \/ hi < 0]

\* a * c for a constant 0 <= c < 2^15
U32MulSmall(a, c) ==
    LET lo == a.lo * c
        hi == a.hi * c + (lo \div Limb)
    IN  [hi |-> hi % Limb, lo |-> lo % Limb, ovf |-> a.ovf \/ hi >= Limb]

\* a / d (unsigned, truncating) for a constant 0 < d < 2^15
U32DivSmall(a, d) ==
    LET r == a.hi % d
    IN  [hi |-> a.hi \div d, lo |-> (r * Limb + a.lo) \div d, ovf |-> a.ovf]

\* `as i32`: reinterpret the 32 bits as a two's complement number
U32AsI32(a) ==
    IF a.hi >= Limb \div 2 THEN (a.hi - Limb) * Limb + a.lo ELSE a.hi * Limb + a.lo

\* i32 arithmetic: the wrapped result, and whether the exact result is out of range
I32WrappingAdd(a, b) == U32AsI32(U32Add(U32Of(a), U32Of(b)))

I32AddOverflows(a, b) ==
    LET w == I32WrappingAdd(a, b)
    IN  (a >= 0 /\ b >= 0 /\ w < 0) \/ (a < 0 /\ b < 0 /\ w >= 0)

\* a * k for a constant 0 < k < 2^15
I32WrappingMul(a, k) == U32AsI32(U32MulSmall(U32Of(a), k))

I32MulOverflows(a, k) ==
    \/ a > I32_MAX \div k
    \/ a < 0 /\ -(a + 1) > (I32_MAX - (k - 1)) \div k

\* Rust's / and % on signed integers truncate toward zero
Abs(x) == IF x < 0 THEN -x ELSE x

TruncDiv(a, b) ==
    IF (a >= 0) = (b > 0) THEN Abs(a) \div Abs(b) ELSE -(Abs(a) \div Abs(b))

TruncRem(a, b) == a - b * TruncDiv(a, b)

(***************************************************************************)
(* Date                                                                    *)
(***************************************************************************)
MaxYear == 9999
MaxMonth == 12
MaxDay == 31

Date_new(day, month, year) ==
    IF year > MaxYear \/ day > MaxDay \/ month > MaxMonth
    THEN Panic([year |-> 0, month |-> 0, day |-> 0])
    ELSE Ok([year |-> year, month |-> month, day |-> day])

JY == 4716
JJ == 1401
JM == 2
JN == 12
JR == 4
JP == 1461
JV == 3
JU == 5
JS == 153
JW == 2
JB == 274277
JC == -38

\* The i32 computation of julian_day_number_to_gregorian_date with wrapping
\* arithmetic; .ovf tells that some operation overflowed.  `year as u32` of a
\* negative year is kept as that negative number, its two's complement alias.
julian_i32(j) ==
    LET j4 == I32WrappingMul(j, 4)
        j4b == I32WrappingAdd(j4, JB)
        q == TruncDiv(TruncDiv(j4b, 146097) * 3, 4)
        jJ == I32WrappingAdd(j, JJ)
        jJq == I32WrappingAdd(jJ, q)
        f == I32WrappingAdd(jJq, JC)
        Rf == I32WrappingMul(f, JR)
        e == I32WrappingAdd(Rf, JV)
        g == TruncDiv(TruncRem(e, JP), JR)
        h == JU * g + JW
        day == TruncDiv(TruncRem(h, JS), JU) + 1
        month == TruncRem(TruncDiv(h, JS) + JM, JN) + 1
        year == TruncDiv(e, JP) - JY + TruncDiv(JN + JM - month, JN)
    IN  [date |-> [year |-> year, month |-> month, day |-> day],
         ovf |-> \/ I32MulOverflows(j, 4) \/ I32AddOverflows(j4, JB)
                 \/ I32AddOverflows(j, JJ) \/ I32AddOverflows(jJ, q)
                 \/ I32AddOverflows(jJq, JC)
                 \/ I32MulOverflows(f, JR) \/ I32AddOverflows(Rf, JV)]

\* The outcomes a build can produce: the Date, or a panic where it overflowed.
julian_day_number_to_gregorian_date(j) ==
    LET r == julian_i32(j)
    IN  IF r.ovf THEN {Panic(r.date), Ok(r.date)} ELSE {Ok(r.date)}

\* The u32 computation of to_julian_day_number; .ovf tells that it wrapped.
\* 146_097 = 9 * 16_233: the product wraps exactly when one of the two steps does.
julian_u32(self) ==
    LET month == IF self.month > 2 THEN self.month - 3 ELSE self.month + 9
        year == IF self.month > 2
                THEN U32Of(self.year)
                ELSE U32Sub(U32Of(self.year), U32Of(1))
        century == U32DivSmall(year, 100)
        decade == U32Sub(year, U32MulSmall(century, 100))
    IN  U32Add(
          U32Add(
            U32Add(
              U32Add(U32DivSmall(U32MulSmall(U32MulSmall(century, 9), 16233), 4),
                     U32DivSmall(U32MulSmall(decade, 1461), 4)),
              U32Of((153 * month + 2) \div 5)),
            U32Of(self.day)),
          U32Of(1721119))

\* A variant that leaves the day of the month out: the number of the month's
\* first day.
to_julian_day_number_of_month(self) ==
    {Ok(U32AsI32(julian_u32([self EXCEPT !.day = 1])))}

\* The outcomes a build can produce: the value, or a panic where it wrapped.
to_julian_day_number(self) ==
    LET r == julian_u32(self)
    IN  IF r.ovf THEN {Panic(0), Ok(U32AsI32(r))} ELSE {Ok(U32AsI32(r))}

(***************************************************************************)
(* trim_field_data                                                         *)
(***************************************************************************)
USIZE_MAX == -1   \* stands for usize::MAX, which no index equals

RECURSIVE trim_scan(_, _, _, _)
\* the loop `for i in 0..bytes.len()`, from index i (1-based here) on
trim_scan(bs, i, first, last) ==
    IF i > Len(bs) \/ bs[i] = 0
    THEN <<first, last>>
    ELSE IF bs[i] # 32
         THEN trim_scan(bs, i + 1, IF first = USIZE_MAX THEN i - 1 ELSE first, i - 1)
         ELSE trim_scan(bs, i + 1, first, last)

\* A variant that stops at the first space after the content, as a scan for
\* the end of the first word would.
trim_first_word(bs) ==
    LET fl == trim_scan(bs, 1, USIZE_MAX, 0)
        first == fl[1]
        ends == {i \in (first + 1)..Len(bs) : bs[i] \in {0, 32}} \cup {Len(bs) + 1}
    IN  IF first = USIZE_MAX
        THEN <<>>
        ELSE SubSeq(bs, first + 1, (CHOOSE e \in ends : \A o \in ends : e <= o) - 1)

trim_field_data(bs) ==
    LET fl == trim_scan(bs, 1, USIZE_MAX, 0)
        first == fl[1]
        last == fl[2]
    IN  IF first = USIZE_MAX
        THEN <<>>
        ELSE SubSeq(bs, first + 1, last + 1)

(***************************************************************************)
(* Text and number conversions.  A String is its UTF-8 bytes.              *)
(***************************************************************************)
IsDigit(c) == c \in 48..57

RECURSIVE DigitsOf(_)
\* the decimal digits of n >= 0, most significant first
DigitsOf(n) == IF n < 10 THEN <<48 + n>> ELSE Append(DigitsOf(n \div 10), 48 + (n % 10))

RECURSIVE ZeroPad(_, _)
ZeroPad(ds, width) == IF Len(ds) >= width THEN ds ELSE ZeroPad(<<48>> \o ds, width)

\* format!("{:0width$}", n) of an unsigned n
FormatU32(n, width) == ZeroPad(DigitsOf(n), width)

RECURSIVE DigitsValue(_)
DigitsValue(ds) ==
    IF Len(ds) = 0 THEN 0
    ELSE 10 * DigitsValue(SubSeq(ds, 1, Len(ds) - 1)) + (ds[Len(ds)] - 48)

\* str::parse::<u32>: an optional '+', then one digit or more.  The slots of
\* this model hold fewer than ten digits, so no value overflows.
parse_u32(s) ==
    LET body == IF Len(s) > 0 /\ s[1] = 43 THEN Tail(s) ELSE s
    IN  IF Len(body) = 0 \/ \E i \in 1..Len(body) : ~IsDigit(body[i])
        THEN Err("ParseIntError", 0)
        ELSE Ok(DigitsValue(body))

\* the second bytes a lead byte of UTF-8 admits
Utf8Second(lead) ==
    CASE lead = 224 -> 160..191
      [] lead = 237 -> 128..159
      [] OTHER -> 128..191

\* String::from_utf8_lossy for bytes below 0xF0: an ASCII byte stands; a lead
\* byte 0xC2..0xDF stands with its continuation byte, a lead byte 0xE0..0xEF
\* with its two; every maximal ill-formed part becomes one U+FFFD (EF BF BD).
RECURSIVE from_utf8_lossy(_)
from_utf8_lossy(bs) ==
    IF Len(bs) = 0 THEN <<>>
    ELSE IF bs[1] < 128 THEN <<bs[1]>> \o from_utf8_lossy(Tail(bs))
    ELSE IF bs[1] \in 194..223 /\ Len(bs) > 1 /\ bs[2] \in 128..191
         THEN <<bs[1], bs[2]>> \o from_utf8_lossy(Tail(Tail(bs)))
    ELSE IF bs[1] \in 224..239 /\ Len(bs) > 1 /\ bs[2] \in Utf8Second(bs[1])
         THEN IF Len(bs) > 2 /\ bs[3] \in 128..191
              THEN <<bs[1], bs[2], bs[3]>> \o from_utf8_lossy(SubSeq(bs, 4, Len(bs)))
              ELSE <<239, 191, 189>> \o from_utf8_lossy(Tail(Tail(bs)))
    ELSE <<239, 191, 189>> \o from_utf8_lossy(Tail(bs))

\* whether byte offset i (0-based) of the string s starts a character
IsCharBoundary(s, i) == i = Len(s) \/ (i < Len(s) /\ s[i + 1] \notin 128..191)

\* A variant in the other byte order: i32::to_be_bytes.
I32ToBe(v) ==
    <<(v \div 16777216) % 256, (v \div 65536) % 256, (v \div 256) % 256, v % 256>>

\* i32::to_le_bytes / write_i32::<LittleEndian>
I32ToLe(v) ==
    <<v % 256, (v \div 256) % 256, (v \div 65536) % 256, (v \div 16777216) % 256>>

\* i32::from_le_bytes (and u32::from_le_bytes, read as its alias)
I32FromLe(b) ==
    b[1] + 256 * b[2] + 65536 * b[3]
         + 16777216 * (IF b[4] >= 128 THEN b[4] - 256 ELSE b[4])

RECURSIVE Reverse(_)
Reverse(s) == IF Len(s) = 0 THEN <<>> ELSE Append(Reverse(Tail(s)), s[1])

RECURSIVE Repeat(_, _)
Repeat(b, n) == IF n = 0 THEN <<>> ELSE <<b>> \o Repeat(b, n - 1)

All(s, b) == \A i \in 1..Len(s) : s[i] = b

(***************************************************************************)
(* The encodings (encoding_rs).  A text is its UTF-8 bytes; the texts are  *)
(* made of ASCII, U+00E9, U+3042 and U+732B, and the bytes decoded are     *)
(* below 0xF0.  Of the two-byte characters of Shift_JIS the model knows    *)
(* those of SjisTable; it draws no other pair.                             *)
(***************************************************************************)
UTF_8 == "UTF-8"
SHIFT_JIS == "Shift_JIS"
NoEncoding == "None"

\* Encoding::for_label
Encoding_for_label(label) ==
    CASE label \in {"utf-8", "utf8", "unicode-1-1-utf-8"} -> UTF_8
      [] label \in {"shift_jis", "shift-jis", "sjis", "ms_kanji", "windows-31j",
                    "x-sjis", "csshiftjis"} -> SHIFT_JIS
      [] OTHER -> NoEncoding

\* U+3042, U+732B, U+7E3A and U+8FEA in UTF-8 and in Shift_JIS
SjisTable ==
    {[utf8 |-> <<227, 129, 130>>, sjis |-> <<130, 160>>],
     [utf8 |-> <<231, 140, 171>>, sjis |-> <<148, 76>>],
     [utf8 |-> <<231, 184, 186>>, sjis |-> <<227, 129>>],
     [utf8 |-> <<232, 191, 170>>, sjis |-> <<231, 140>>]}

\* the UTF-8 bytes of the code point cp in U+0800..U+FFFF
Utf8Of3(cp) == <<224 + (cp \div 4096), 128 + ((cp \div 64) % 64), 128 + (cp % 64)>>

\* the code point of one character in UTF-8
CodePointOf(c) ==
    CASE Len(c) = 1 -> c[1]
      [] Len(c) = 2 -> (c[1] - 192) * 64 + (c[2] - 128)
      [] Len(c) = 3 -> (c[1] - 224) * 4096 + (c[2] - 128) * 64 + (c[3] - 128)

\* the number of bytes of the first character of a text
FirstCharLen(s) == IF s[1] < 128 THEN 1 ELSE IF s[1] < 224 THEN 2 ELSE 3

RECURSIVE shift_jis_decode(_)
\* the Shift_JIS decoder: a byte up to 0x80 is its code point, 0xA1..0xDF a
\* half-width katakana, 0x81..0x9F and 0xE0..0xFC lead a pair; an unmapped
\* pair is an error (U+FFFD) and its second byte, when ASCII, is decoded again
shift_jis_decode(bs) ==
    IF Len(bs) = 0 THEN <<>>
    ELSE IF bs[1] < 128 THEN <<bs[1]>> \o shift_jis_decode(Tail(bs))
    ELSE IF bs[1] = 128 THEN <<194, 128>> \o shift_jis_decode(Tail(bs))
    ELSE IF bs[1] \in 161..223
         THEN Utf8Of3(65377 + bs[1] - 161) \o shift_jis_decode(Tail(bs))
    ELSE IF bs[1] \in (129..159) \cup (224..252) /\ Len(bs) > 1
         THEN LET known == {e \in SjisTable : e.sjis = <<bs[1], bs[2]>>}
              IN  IF known # {}
                  THEN (CHOOSE e \in known : TRUE).utf8
                          \o shift_jis_decode(Tail(Tail(bs)))
                  ELSE <<239, 191, 189>>
                          \o shift_jis_decode(IF bs[2] < 128 THEN Tail(bs)
                                              ELSE Tail(Tail(bs)))
    ELSE <<239, 191, 189>> \o shift_jis_decode(Tail(bs))

\* Encoding::decode: the text (malformed sequences replaced).  A UTF-8 byte
\* order mark at the start is removed.
Encoding_decode(encoding, bs) ==
    IF Len(bs) >= 3 /\ SubSeq(bs, 1, 3) = <<239, 187, 191>>
    THEN from_utf8_lossy(SubSeq(bs, 4, Len(bs)))
    ELSE IF encoding = SHIFT_JIS THEN shift_jis_decode(bs)
    ELSE from_utf8_lossy(bs)

\* one character in Shift_JIS; an unmappable one is the numeric character
\* reference &#N;
shift_jis_encode_char(c) ==
    LET known == {e \in SjisTable : e.utf8 = c}
    IN  IF Len(c) = 1 THEN [bytes |-> c, unmappable |-> FALSE]
        ELSE IF known # {}
        THEN [bytes |-> (CHOOSE e \in known : TRUE).sjis, unmappable |-> FALSE]
        ELSE IF CodePointOf(c) \in 65377..65439
        THEN [bytes |-> <<CodePointOf(c) - 65377 + 161>>, unmappable |-> FALSE]
        ELSE [bytes |-> <<38, 35>> \o DigitsOf(CodePointOf(c)) \o <<59>>,
              unmappable |-> TRUE]

RECURSIVE shift_jis_encode(_)
shift_jis_encode(s) ==
    IF Len(s) = 0 THEN [bytes |-> <<>>, unmappable |-> FALSE]
    ELSE LET n == FirstCharLen(s)
             c == shift_jis_encode_char(SubSeq(s, 1, n))
             rest == shift_jis_encode(SubSeq(s, n + 1, Len(s)))
         IN  [bytes |-> c.bytes \o rest.bytes,
              unmappable |-> c.unmappable \/ rest.unmappable]

\* Encoding::encode: the bytes, and whether there were unmappable characters
\* (the third item of the tuple)
Encoding_encode(encoding, s) ==
    IF encoding = SHIFT_JIS THEN shift_jis_encode(s)
    ELSE [bytes |-> s, unmappable |-> FALSE]

\* encoded_bytes: `result` is the third item of the tuple encode returns
encoded_bytes(value, encoding) ==
    IF encoding = UTF_8
    THEN Ok(value)
    ELSE LET encoded == Encoding_encode(encoding, value)
             result == encoded.unmappable
         IN  IF ~result THEN Err("InvalidData", <<>>) ELSE Ok(encoded.bytes)

(***************************************************************************)
(* A decimal number sign * mant / 10^scale stands for the f64 or f32 of a  *)
(* Numeric or Float field (the slots of this model hold few digits, so     *)
(* distinct decimals are distinct floats).                                 *)
(***************************************************************************)
RECURSIVE Pow10(_)
Pow10(k) == IF k = 0 THEN 1 ELSE 10 * Pow10(k - 1)

RECURSIVE Normal(_)
\* trailing zeros of the fraction dropped; zero has no sign
Normal(x) ==
    IF x.class # "finite" THEN x
    ELSE IF x.mant = 0 THEN [x EXCEPT !.neg = FALSE, !.scale = 0]
    ELSE IF x.scale > 0 /\ x.mant % 10 = 0
         THEN Normal([x EXCEPT !.mant = @ \div 10, !.scale = @ - 1])
    ELSE x

NoFloat == [class |-> "finite", neg |-> FALSE, mant |-> 0, scale |-> 0]

\* the infinities and the NaNs of f64 and f32
Infinite(neg) == [NoFloat EXCEPT !.class = "inf", !.neg = neg]
NaN(neg) == [NoFloat EXCEPT !.class = "nan", !.neg = neg]

\* n / d rounded to the nearest integer, a tie to the even one
RoundHalfEven(n, d) ==
    LET q == n \div d
        r == n % d
    IN  IF 2 * r > d \/ (2 * r = d /\ q % 2 = 1) THEN q + 1 ELSE q

\* format!("{:.precision$}", x): the digits beyond the precision are rounded
\* (the decimals of this model with such digits are exact binary fractions,
\* so the tie is a true tie); a NaN is "NaN", an infinity "inf" or "-inf"
FormatFloat(x, precision) ==
    LET m == IF x.class # "finite" THEN 0
             ELSE IF x.scale <= precision
             THEN x.mant * Pow10(precision - x.scale)
             ELSE RoundHalfEven(x.mant, Pow10(x.scale - precision))
        p == Pow10(precision)
        frac == IF precision = 0 THEN <<>>
                ELSE <<46>> \o ZeroPad(DigitsOf(m % p), precision)
    IN  CASE x.class = "nan" -> <<78, 97, 78>>
          [] x.class = "inf" -> (IF x.neg THEN <<45>> ELSE <<>>) \o <<105, 110, 102>>
          [] OTHER -> (IF x.neg THEN <<45>> ELSE <<>>) \o DigitsOf(m \div p) \o frac

\* str::parse::<f64> / ::<f32> on a string of digits, '.', '+', '-', letters
\* and bytes that no number holds: an optional sign, then the word inf,
\* infinity or nan in any case, or digits, an optional '.' and digits, with a
\* digit on one side of the '.' at least.  (Exponents are outside the bytes
\* this model draws.)
parse_float(s) ==
    LET body == IF Len(s) > 0 /\ s[1] \in {43, 45} THEN Tail(s) ELSE s
        neg == Len(s) > 0 /\ s[1] = 45
        \* the body with its ASCII letters in lower case
        word == [i \in 1..Len(body) |->
                    IF body[i] \in 65..90 THEN body[i] + 32 ELSE body[i]]
        dots == {i \in 1..Len(body) : body[i] = 46}
        dot == IF dots = {} THEN Len(body) + 1 ELSE CHOOSE i \in dots : TRUE
        int == SubSeq(body, 1, dot - 1)
        frac == SubSeq(body, dot + 1, Len(body))
    IN  IF word \in {<<105, 110, 102>>, <<105, 110, 102, 105, 110, 105, 116, 121>>}
        THEN Ok(Infinite(neg))
        ELSE IF word = <<110, 97, 110>>
        THEN Ok(NaN(neg))
        ELSE IF \/ Cardinality(dots) > 1
                \/ Len(int) + Len(frac) = 0
                \/ \E i \in 1..Len(body) : ~IsDigit(body[i]) /\ body[i] # 46
        THEN Err("ParseFloatError", NoFloat)
        ELSE Ok(Normal([class |-> "finite", neg |-> neg,
                        mant |-> DigitsValue(int \o frac), scale |-> Len(frac)]))

(***************************************************************************)
(* Time                                                                    *)
(***************************************************************************)
HOURS_FACTOR == 3600000
MINUTES_FACTOR == 60000
SECONDS_FACTOR == 1000
MaxHours == 24
MaxMinutes == 60
MaxSeconds == 60

NoTime == [hours |-> 0, minutes |-> 0, seconds |-> 0]

Time_new(hours, minutes, seconds) ==
    IF hours > MaxHours \/ minutes > MaxMinutes \/ seconds > MaxSeconds
    THEN Panic(NoTime)
    ELSE Ok([hours |-> hours, minutes |-> minutes, seconds |-> seconds])

\* The computation of from_word with wrapping arithmetic; a u32 at or above
\* 2^31 is kept as its two's complement alias, a negative number.  A negative
\* `hours` or `minutes` is such a u32, and its product with the factor
\* overflows u32 (.ovf); the wrapped product is the signed product.
from_word_wrapping(time_word) ==
    LET hours == TruncDiv(time_word, HOURS_FACTOR)
        w1 == time_word - hours * HOURS_FACTOR
        minutes == TruncDiv(w1, MINUTES_FACTOR)
        w2 == w1 - minutes * MINUTES_FACTOR
        seconds == TruncDiv(w2, SECONDS_FACTOR)
    IN  [time |-> [hours |-> hours, minutes |-> minutes, seconds |-> seconds],
         ovf |-> hours < 0 \/ minutes < 0]

\* The outcomes a build can produce: the Time, or a panic where it overflowed.
from_word(time_word) ==
    LET r == from_word_wrapping(time_word)
    IN  IF r.ovf THEN {Panic(r.time), Ok(r.time)} ELSE {Ok(r.time)}

\* for the fields of a Time that Time::new made, or from_word from a word
\* >= 0: no product and no sum leaves the 32-bit range
to_time_word(self) ==
    self.hours * HOURS_FACTOR + self.minutes * MINUTES_FACTOR
        + self.seconds * SECONDS_FACTOR

(***************************************************************************)
(* MemoHeader and MemoReader.  The source is the memo file's bytes; every  *)
(* lookup seeks first, so its position is no state.  A reader is the       *)
(* record of the struct's fields.                                          *)
(***************************************************************************)
DefaultBlockSize == 512

\* Read::read_exact of n bytes at offset pos (an offset at or above 2^31 is a
\* negative alias: it lies past the end of every file here)
read_exact(source, pos, n) ==
    IF pos >= 0 /\ pos + n <= Len(source)
    THEN Ok(SubSeq(source, pos + 1, pos + n))
    ELSE Err("UnexpectedEof", <<>>)

\* the bytes a failed read_exact of Len(old) bytes at pos found before the end
Available(source, pos, old) ==
    IF pos < 0 \/ pos >= Len(source) THEN <<>>
    ELSE SubSeq(source, pos + 1, IF pos + Len(old) <= Len(source)
                                 THEN pos + Len(old) ELSE Len(source))

\* What a failed read_exact leaves in the region `old` of the buffer is not
\* specified: a stream leaves it untouched or holding the bytes it got.
AfterFailedRead(old, avail) ==
    {old, avail \o SubSeq(old, Len(avail) + 1, Len(old))}

U32FromBe(b) == I32FromLe(Reverse(b))

U16FromLe(b) == b[1] + 256 * b[2]

U16FromBe(b) == 256 * b[1] + b[2]

NoHeader == [next_available_block_index |-> 0, block_size |-> 0]

MemoHeader_read_from(src, memo_type) ==
    LET next == read_exact(src, 0, 4)
        size == IF memo_type = "FoxBaseMemo"
                THEN read_exact(src, 6, 2)
                ELSE read_exact(src, 4, 2)
    IN  IF next.kind # "Ok" \/ size.kind # "Ok"
        THEN Err("UnexpectedEof", NoHeader)
        ELSE Ok([next_available_block_index |-> I32FromLe(next.v),
                 block_size |->
                    IF memo_type = "FoxBaseMemo" THEN U16FromBe(size.v)
                    ELSE IF U16FromLe(size.v) = 0 THEN DefaultBlockSize
                    ELSE U16FromLe(size.v)])

MemoReader_new(memo_type, src) ==
    LET header == MemoHeader_read_from(src, memo_type)
    IN  [memo_file_type |-> memo_type,
         header |-> header.v,
         source |-> src,
         internal_buffer |-> Repeat(0, header.v.block_size)]

\* the 0-based positions of the bytes of s that are b (is: TRUE) or are not b
Positions(s, b, is) == {i \in 0..(Len(s) - 1) : (s[i + 1] = b) = is}

Min(S) == CHOOSE x \in S : \A y \in S : x <= y

Max(S) == CHOOSE x \in S : \A y \in S : x >= y

\* the buffer with its first Len(head) bytes overwritten by head
Overwrite(buffer, head) == head \o SubSeq(buffer, Len(head) + 1, Len(buffer))

Outcome(res, reader) == [res |-> res, reader |-> reader]

\* A variant that resizes the buffer to the declared length at every lookup.
FoxBaseMemo_read_resizing(self, off, fault) ==
    LET type == read_exact(self.source, off, 4)
        len == read_exact(self.source, off + 4, 4)
        length == U32FromBe(len.v)
        grown == SubSeq(self.internal_buffer \o Repeat(0, length), 1, length)
        payload == read_exact(self.source, off + 8, length)
        buf_slice == payload.v
        nonzero == Positions(buf_slice, 0, FALSE)
    IN  IF type.kind # "Ok" \/ len.kind # "Ok"
        THEN {Outcome(Err("UnexpectedEof", <<>>), self)}
        ELSE IF fault \/ payload.kind # "Ok"
        THEN {Outcome(Err(IF fault THEN "Other" ELSE "UnexpectedEof", <<>>),
                      [self EXCEPT !.internal_buffer = Overwrite(grown, head)]) :
                head \in AfterFailedRead(SubSeq(grown, 1, length),
                            Available(self.source, off + 8, SubSeq(grown, 1, length)))}
        ELSE {Outcome(Ok(IF nonzero # {}
                         THEN SubSeq(buf_slice, 1, Max(nonzero) + 1)
                         ELSE IF All(buf_slice, 0) THEN <<>> ELSE buf_slice),
                      [self EXCEPT !.internal_buffer = Overwrite(grown, buf_slice)])}

\* A variant that ends the text at the first zero byte.
FoxBaseMemo_read_first_zero(self, off, fault) ==
    LET type == read_exact(self.source, off, 4)
        len == read_exact(self.source, off + 4, 4)
        length == U32FromBe(len.v)
        grown == IF length > Len(self.internal_buffer)
                 THEN self.internal_buffer
                        \o Repeat(0, length - Len(self.internal_buffer))
                 ELSE self.internal_buffer
        payload == read_exact(self.source, off + 8, length)
        buf_slice == payload.v
        nonzero == Positions(buf_slice, 0, FALSE)
        zero == Positions(buf_slice, 0, TRUE)
    IN  IF type.kind # "Ok" \/ len.kind # "Ok"
        THEN {Outcome(Err("UnexpectedEof", <<>>), self)}
        ELSE IF fault \/ payload.kind # "Ok"
        THEN {Outcome(Err(IF fault THEN "Other" ELSE "UnexpectedEof", <<>>),
                      [self EXCEPT !.internal_buffer = Overwrite(grown, head)]) :
                head \in AfterFailedRead(SubSeq(grown, 1, length),
                            Available(self.source, off + 8, SubSeq(grown, 1, length)))}
        ELSE {Outcome(Ok(IF zero # {}
                         THEN SubSeq(buf_slice, 1, Min(zero))
                         ELSE buf_slice),
                      [self EXCEPT !.internal_buffer = Overwrite(grown, buf_slice)])}

FoxBaseMemo_read(self, off, fault) ==
    LET type == read_exact(self.source, off, 4)
        len == read_exact(self.source, off + 4, 4)
        length == U32FromBe(len.v)
        grown == IF length > Len(self.internal_buffer)
                 THEN self.internal_buffer
                        \o Repeat(0, length - Len(self.internal_buffer))
                 ELSE self.internal_buffer
        payload == read_exact(self.source, off + 8, length)
        buf_slice == payload.v
        nonzero == Positions(buf_slice, 0, FALSE)
    IN  IF type.kind # "Ok" \/ len.kind # "Ok"
        THEN {Outcome(Err("UnexpectedEof", <<>>), self)}
        ELSE IF fault \/ payload.kind # "Ok"
        THEN {Outcome(Err(IF fault THEN "Other" ELSE "UnexpectedEof", <<>>),
                      [self EXCEPT !.internal_buffer = Overwrite(grown, head)]) :
                head \in AfterFailedRead(SubSeq(grown, 1, length),
                            Available(self.source, off + 8, SubSeq(grown, 1, length)))}
        ELSE {Outcome(Ok(IF nonzero # {}
                         THEN SubSeq(buf_slice, 1, Max(nonzero) + 1)
                         ELSE IF All(buf_slice, 0) THEN <<>> ELSE buf_slice),
                      [self EXCEPT !.internal_buffer = Overwrite(grown, buf_slice)])}

\* A variant that returns the declared length of bytes, sentinel or not.
DbaseMemo4_read_whole(self, off, fault) ==
    LET len == read_exact(self.source, off + 4, 4)
        length == I32FromLe(len.v)
        payload == read_exact(self.source, off + 8, length)
    IN  IF len.kind # "Ok" \/ length < 0 \/ length > Len(self.internal_buffer)
           \/ fault \/ payload.kind # "Ok"
        THEN {Outcome(Err("Other", <<>>), self)}
        ELSE {Outcome(Ok(payload.v),
                      [self EXCEPT !.internal_buffer = Overwrite(@, payload.v)])}

DbaseMemo4_read(self, off, fault) ==
    LET tag == read_exact(self.source, off, 4)
        len == read_exact(self.source, off + 4, 4)
        length == I32FromLe(len.v)
        payload == read_exact(self.source, off + 8, length)
        old == SubSeq(self.internal_buffer, 1, length)
        buffer == Overwrite(self.internal_buffer, payload.v)
        found == Positions(SubSeq(buffer, 1, length), 31, TRUE)
    IN  IF tag.kind # "Ok" \/ len.kind # "Ok"
        THEN {Outcome(Err("UnexpectedEof", <<>>), self)}
        ELSE IF length < 0 \/ length > Len(self.internal_buffer)
        THEN {Outcome(Panic(<<>>), self)}
        ELSE IF fault \/ payload.kind # "Ok"
        THEN {Outcome(Err(IF fault THEN "Other" ELSE "UnexpectedEof", <<>>),
                      [self EXCEPT !.internal_buffer = Overwrite(@, head)]) :
                head \in AfterFailedRead(old, Available(self.source, off + 8, old))}
        ELSE {Outcome(Ok(IF found # {}
                         THEN SubSeq(buffer, 1, Min(found))
                         ELSE buffer),
                      [self EXCEPT !.internal_buffer = buffer])}

\* text of the dBase dialect: up to the first 0x1A of the whole buffer
DbaseMemo_text(buffer) ==
    LET found == Positions(buffer, 26, TRUE)
    IN  IF found # {} THEN SubSeq(buffer, 1, Min(found)) ELSE buffer

DbaseMemo_read(self, index, off, fault) ==
    LET block == read_exact(self.source, off, Len(self.internal_buffer))
        kind == IF fault THEN "Other" ELSE "UnexpectedEof"
        next == self.header.next_available_block_index
        \* next - 1 in u32: 0 - 1 overflows, and wraps to the alias -1
        returns == index # next - 1 /\ kind # "UnexpectedEof"
        tolerated ==
            IF returns
            THEN {Outcome(Err(kind, <<>>),
                          [self EXCEPT !.internal_buffer = head]) :
                    head \in AfterFailedRead(self.internal_buffer,
                        Available(self.source, off, self.internal_buffer))}
            ELSE {Outcome(Ok(DbaseMemo_text(head)),
                          [self EXCEPT !.internal_buffer = head]) :
                    head \in AfterFailedRead(self.internal_buffer,
                        Available(self.source, off, self.internal_buffer))}
    IN  IF ~fault /\ block.kind = "Ok"
        THEN {Outcome(Ok(DbaseMemo_text(block.v)),
                      [self EXCEPT !.internal_buffer = block.v])}
        ELSE IF next = 0
        THEN tolerated
               \cup {Outcome(Panic(<<>>), [self EXCEPT !.internal_buffer = head]) :
                       head \in AfterFailedRead(self.internal_buffer,
                           Available(self.source, off, self.internal_buffer))}
        ELSE tolerated

\* MemoReader::read_data_at: the outcomes of one lookup, each with the reader
\* it leaves.  `fault` says that the stream fails the block's read_exact with
\* an I/O error other than end of file.  index * block_size overflows u32 in
\* .ovf: a build panics there or goes on with the wrapped offset.
read_data_at(self, index, fault) ==
    LET byte_offset == U32MulSmall(U32Of(index), self.header.block_size)
        off == U32AsI32(byte_offset)
        read == CASE self.memo_file_type = "FoxBaseMemo" ->
                       FoxBaseMemo_read(self, off, fault)
                  [] self.memo_file_type = "DbaseMemo4" ->
                       DbaseMemo4_read(self, off, fault)
                  [] self.memo_file_type = "DbaseMemo" ->
                       DbaseMemo_read(self, index, off, fault)
    IN  IF byte_offset.ovf THEN {Outcome(Panic(<<>>), self)} \cup read ELSE read

(***************************************************************************)
(* FieldType, FieldInfo and FieldValue.  A FieldValue is a record of its   *)
(* variant `tag` and the payload: `some` for the Option, and the field of  *)
(* the payload's type (s: a String, or the eight bytes of an f64 from the  *)
(* sign on; x: a decimal; b: a bool; n: an i32; d: a Date; t: a Time).     *)
(***************************************************************************)
FieldTypes ==
    {"Character", "Date", "Float", "Numeric", "Logical",
     "Currency", "DateTime", "Integer", "Double", "Memo"}

FieldInfo(type, length, decimals) ==
    [field_type |-> type, field_length |-> length, num_decimal_places |-> decimals]

NoDate == [year |-> 0, month |-> 0, day |-> 0]

Blank(tag) ==
    [tag |-> tag, some |-> FALSE, s |-> <<>>, x |-> NoFloat, b |-> FALSE,
     n |-> 0, d |-> NoDate, t |-> NoTime]

Present(tag) == [Blank(tag) EXCEPT !.some = TRUE]

Character(s) == [Present("Character") EXCEPT !.s = s]
Numeric(x) == [Present("Numeric") EXCEPT !.x = x]
Float(x) == [Present("Float") EXCEPT !.x = x]
Logical(b) == [Present("Logical") EXCEPT !.b = b]
DateValue(d) == [Present("Date") EXCEPT !.d = d]
Integer(n) == [Present("Integer") EXCEPT !.n = n]
Currency(bits) == [Present("Currency") EXCEPT !.s = bits]
Double(bits) == [Present("Double") EXCEPT !.s = bits]
DateTime(d, t) == [Present("DateTime") EXCEPT !.d = d, !.t = t]
Memo(s) == [Present("Memo") EXCEPT !.s = s]

field_type(self) ==
    CASE self.tag = "Character" -> "Character"
      [] self.tag = "Numeric" -> "Numeric"
      [] self.tag = "Logical" -> "Logical"
      [] self.tag = "Integer" -> "Integer"
      [] self.tag = "Float" -> "Float"
      [] self.tag = "Double" -> "Double"
      [] self.tag = "Date" -> "Date"
      [] self.tag = "Memo" -> "Memo"
      [] self.tag = "Currency" -> "Currency"
      [] self.tag = "DateTime" -> "DateTime"

(***************************************************************************)
(* write_as: the set of outcomes, each with the bytes it wrote to dst in   *)
(* `v`.  dst is a Cursor over a Vec<u8>, whose writes do not fail.         *)
(***************************************************************************)
IncompatibleType == {Err("IncompatibleType", <<>>)}

f64_write_as(bits, x, field_info) ==
    CASE field_info.field_type = "Numeric" ->
           {Ok(FormatFloat(x, field_info.num_decimal_places))}
      [] field_info.field_type \in {"Currency", "Double"} ->
           {Ok(Reverse(bits))}
      [] OTHER -> IncompatibleType

\* A variant that writes the numbers without padding: "{}{}{}".
Date_write_as_unpadded(self, field_info) ==
    IF field_info.field_type = "Date"
    THEN {Ok(DigitsOf(self.year) \o DigitsOf(self.month) \o DigitsOf(self.day))}
    ELSE IncompatibleType

Date_write_as(self, field_info) ==
    IF field_info.field_type = "Date"
    THEN {Ok(FormatU32(self.year, 4) \o FormatU32(self.month, 2)
                \o FormatU32(self.day, 2))}
    ELSE IncompatibleType

OptionDate_write_as(some, date_, field_info) ==
    IF field_info.field_type = "Date"
    THEN IF some THEN Date_write_as(date_, field_info) ELSE {Ok(Repeat(32, 8))}
    ELSE IncompatibleType

\* A variant that writes the absent value as the '*' filler.
Optionf64_write_as_filler(some, x, field_info) ==
    IF field_info.field_type = "Numeric"
    THEN IF some THEN f64_write_as(<<>>, x, field_info)
         ELSE {Ok(Repeat(42, field_info.field_length))}
    ELSE IncompatibleType

Optionf64_write_as(some, x, field_info) ==
    IF field_info.field_type = "Numeric"
    THEN IF some THEN f64_write_as(<<>>, x, field_info) ELSE {Ok(<<>>)}
    ELSE IncompatibleType

f32_write_as(x, field_info) ==
    IF field_info.field_type = "Float"
    THEN {Ok(FormatFloat(x, field_info.num_decimal_places))}
    ELSE IncompatibleType

Optionf32_write_as(some, x, field_info) ==
    IF field_info.field_type = "Float"
    THEN IF some THEN f32_write_as(x, field_info) ELSE {Ok(<<>>)}
    ELSE IncompatibleType

String_write_as(s, field_info) ==
    IF field_info.field_type = "Character" THEN {Ok(s)} ELSE IncompatibleType

OptionString_write_as(some, s, field_info) ==
    IF field_info.field_type = "Character"
    THEN IF some THEN String_write_as(s, field_info) ELSE {Ok(<<>>)}
    ELSE IncompatibleType

bool_write_as(b, field_info) ==
    IF field_info.field_type = "Logical"
    THEN IF b THEN {Ok(<<116>>)} ELSE {Ok(<<102>>)}
    ELSE IncompatibleType

Optionbool_write_as(some, b, field_info) ==
    IF field_info.field_type = "Logical"
    THEN IF some THEN bool_write_as(b, field_info) ELSE {Ok(<<>>)}
    ELSE IncompatibleType

i32_write_as(n, field_info) ==
    IF field_info.field_type = "Integer" THEN {Ok(I32ToLe(n))} ELSE IncompatibleType

\* DateTime::write_to: nothing is written when to_julian_day_number panics
DateTime_write_to(date_, time_) ==
    {IF j.kind = "Ok" THEN Ok(I32ToLe(j.v) \o I32ToLe(to_time_word(time_)))
     ELSE Panic(<<>>) : j \in to_julian_day_number(date_)}

DateTime_write_as(date_, time_, field_info) ==
    IF field_info.field_type = "DateTime"
    THEN DateTime_write_to(date_, time_)
    ELSE IncompatibleType

\* unimplemented!("Cannot write memo")
Memo_write_as == {Panic(<<>>)}

\* the match on self
write_as_match(self, field_info) ==
    CASE self.tag = "Character" -> OptionString_write_as(self.some, self.s, field_info)
      [] self.tag = "Numeric" -> Optionf64_write_as(self.some, self.x, field_info)
      [] self.tag = "Logical" -> Optionbool_write_as(self.some, self.b, field_info)
      [] self.tag = "Date" -> OptionDate_write_as(self.some, self.d, field_info)
      [] self.tag = "Float" -> Optionf32_write_as(self.some, self.x, field_info)
      [] self.tag = "Integer" -> i32_write_as(self.n, field_info)
      [] self.tag = "Currency" -> f64_write_as(self.s, NoFloat, field_info)
      [] self.tag = "DateTime" -> DateTime_write_as(self.d, self.t, field_info)
      [] self.tag = "Double" -> f64_write_as(self.s, NoFloat, field_info)
      [] self.tag = "Memo" -> Memo_write_as

\* A variant without the comparison of the tags: the match alone.
write_as_unchecked(self, field_info) == write_as_match(self, field_info)

write_as(self, field_info) ==
    IF field_type(self) # field_info.field_type
    THEN IncompatibleType
    ELSE write_as_match(self, field_info)

\* Cursor<Vec<u8>>::write at position 0: overwrite, and extend where needed
CursorWrite(buffer, written) ==
    written \o SubSeq(buffer, Len(written) + 1, Len(buffer))

(***************************************************************************)
(* read_from: the set of outcomes, each with the FieldValue in `res.v` and *)
(* the memo reader the call leaves.                                        *)
(***************************************************************************)
NoReader ==
    [memo_file_type |-> "None", header |-> NoHeader, source |-> <<>>,
     internal_buffer |-> <<>>]

Logical_read(field_bytes) ==
    IF Len(field_bytes) = 0 THEN Panic(Blank("Logical"))
    ELSE CASE field_bytes[1] \in {32, 63} -> Ok(Blank("Logical"))
           [] field_bytes[1] \in {49, 48, 84, 116, 89, 121} -> Ok(Logical(TRUE))
           [] field_bytes[1] \in {78, 110, 70, 102} -> Ok(Logical(FALSE))
           [] OTHER -> Ok(Blank("Logical"))

\* A variant that decodes the whole slot, padding included.
Character_read_untrimmed(field_bytes, encoding) ==
    IF Len(field_bytes) = 0 THEN Ok(Blank("Character"))
    ELSE Ok(Character(Encoding_decode(encoding, field_bytes)))

Character_read(field_bytes, encoding) ==
    LET value == trim_field_data(field_bytes)
    IN  IF Len(value) = 0 THEN Ok(Blank("Character"))
        ELSE Ok(Character(Encoding_decode(encoding, value)))

Numeric_read(field_bytes) ==
    LET value == trim_field_data(field_bytes)
        parsed == parse_float(from_utf8_lossy(value))
    IN  IF Len(value) = 0 \/ All(value, 42) THEN Ok(Blank("Numeric"))
        ELSE IF parsed.kind = "Ok" THEN Ok(Numeric(parsed.v))
        ELSE Err(parsed.err, Blank("Numeric"))

Float_read(field_bytes) ==
    LET value == trim_field_data(field_bytes)
        parsed == parse_float(from_utf8_lossy(value))
    IN  IF Len(value) = 0 \/ All(value, 42) THEN Ok(Blank("Float"))
        ELSE IF parsed.kind = "Ok" THEN Ok(Float(parsed.v))
        ELSE Err(parsed.err, Blank("Float"))

\* &s[from..to]: a panic unless both ends are in the string and on character
\* boundaries
StrSlice(s, from, to) ==
    IF to <= Len(s) /\ IsCharBoundary(s, from) /\ IsCharBoundary(s, to)
    THEN Ok(SubSeq(s, from + 1, to))
    ELSE Panic(<<>>)

Date_from_str(s) ==
    LET ys == StrSlice(s, 0, 4)
        year == parse_u32(ys.v)
        ms == StrSlice(s, 4, 6)
        month == parse_u32(ms.v)
        ds == StrSlice(s, 6, 8)
        day == parse_u32(ds.v)
    IN  IF ys.kind # "Ok" THEN Panic(NoDate)
        ELSE IF year.kind # "Ok" THEN Err(year.err, NoDate)
        ELSE IF ms.kind # "Ok" THEN Panic(NoDate)
        ELSE IF month.kind # "Ok" THEN Err(month.err, NoDate)
        ELSE IF ds.kind # "Ok" THEN Panic(NoDate)
        ELSE IF day.kind # "Ok" THEN Err(day.err, NoDate)
        ELSE Ok([year |-> year.v, month |-> month.v, day |-> day.v])

Date_read(field_bytes) ==
    LET value == trim_field_data(field_bytes)
        parsed == Date_from_str(from_utf8_lossy(value))
    IN  IF All(value, 32) THEN Ok(Blank("Date"))
        ELSE IF parsed.kind = "Ok" THEN Ok(DateValue(parsed.v))
        ELSE [parsed EXCEPT !.v = Blank("Date")]

Integer_read(field_bytes) ==
    IF Len(field_bytes) < 4 THEN Panic(Blank("Integer"))
    ELSE Ok(Integer(I32FromLe(SubSeq(field_bytes, 1, 4))))

Double_read(field_bytes) ==
    IF Len(field_bytes) < 8 THEN Panic(Blank("Double"))
    ELSE Ok(Double(Reverse(SubSeq(field_bytes, 1, 8))))

Currency_read(field_bytes) ==
    IF Len(field_bytes) < 8 THEN Panic(Blank("Currency"))
    ELSE Ok(Currency(Reverse(SubSeq(field_bytes, 1, 8))))

\* DateTime::read_from on a Cursor over the slot
DateTime_read_from(field_bytes) ==
    IF Len(field_bytes) < 8 THEN {Err("UnexpectedEof", Blank("DateTime"))}
    ELSE {IF time_.kind = "Ok" /\ date_.kind = "Ok"
          THEN Ok(DateTime(date_.v, time_.v))
          ELSE Panic(Blank("DateTime")) :
            time_ \in from_word(I32FromLe(SubSeq(field_bytes, 5, 8))),
            date_ \in julian_day_number_to_gregorian_date(
                        I32FromLe(SubSeq(field_bytes, 1, 4)))}

\* A variant that asks for the reader before it looks at the slot.
Memo_read_reader_first(field_bytes, memo_reader, field_info, fault) ==
    IF memo_reader # NoReader
    THEN {Outcome(Ok(Memo(<<>>)), memo_reader)}
    ELSE {Outcome(Err("MissingMemoFile", Blank("Memo")), memo_reader)}

\* the Memo branch: the index in the slot, then the lookup
Memo_read(field_bytes, memo_reader, field_info, fault) ==
    LET trimmed_value == trim_field_data(field_bytes)
        parsed == parse_u32(from_utf8_lossy(trimmed_value))
        index_in_memo == IF field_info.field_length > 4 THEN parsed.v
                         ELSE I32FromLe(SubSeq(field_bytes, 1, 4))
    IN  IF field_info.field_length > 4 /\ Len(trimmed_value) = 0
        THEN {Outcome(Ok(Memo(<<>>)), memo_reader)}
        ELSE IF field_info.field_length > 4 /\ parsed.kind # "Ok"
        THEN {Outcome(Err(parsed.err, Blank("Memo")), memo_reader)}
        ELSE IF field_info.field_length <= 4 /\ Len(field_bytes) < 4
        THEN {Outcome(Panic(Blank("Memo")), memo_reader)}
        ELSE IF memo_reader # NoReader
        THEN {Outcome(IF o.res.kind = "Ok"
                      THEN Ok(Memo(from_utf8_lossy(o.res.v)))
                      ELSE [o.res EXCEPT !.v = Blank("Memo")],
                      o.reader) :
                o \in read_data_at(memo_reader, index_in_memo, fault)}
        ELSE {Outcome(Err("MissingMemoFile", Blank("Memo")), memo_reader)}

\* the match on field_info.field_type
read_from_match(field_bytes, memo_reader, field_info, encoding, fault) ==
    CASE field_info.field_type = "Memo" ->
           Memo_read(field_bytes, memo_reader, field_info, fault)
      [] field_info.field_type = "DateTime" ->
           {Outcome(r, memo_reader) : r \in DateTime_read_from(field_bytes)}
      [] OTHER ->
           {Outcome(CASE field_info.field_type = "Logical" -> Logical_read(field_bytes)
                      [] field_info.field_type = "Character" -> Character_read(field_bytes, encoding)
                      [] field_info.field_type = "Numeric" -> Numeric_read(field_bytes)
                      [] field_info.field_type = "Float" -> Float_read(field_bytes)
                      [] field_info.field_type = "Date" -> Date_read(field_bytes)
                      [] field_info.field_type = "Integer" -> Integer_read(field_bytes)
                      [] field_info.field_type = "Double" -> Double_read(field_bytes)
                      [] field_info.field_type = "Currency" -> Currency_read(field_bytes),
                    memo_reader)}

\* FieldValue::read_from.  The debug_assert_eq! on the slot's length panics
\* in a build with debug assertions and is absent from the others.
read_from(field_bytes, memo_reader, field_info, encoding, fault) ==
    IF Len(field_bytes) # field_info.field_length
    THEN {Outcome(Panic(Blank(field_info.field_type)), memo_reader)}
           \cup read_from_match(field_bytes, memo_reader, field_info, encoding, fault)
    ELSE read_from_match(field_bytes, memo_reader, field_info, encoding, fault)

(***************************************************************************)
(* Inputs                                                                  *)
(***************************************************************************)
\* Years: the first ones, and in every 400-year cycle the leap century, the
\* year after it, a common century, year 19 and the last year of the cycle.
YearWindow == 4

Years ==
    {y \in 0..MaxYear : y <= YearWindow \/ y % 400 \in {0, 1, 19, 100, 399}}

Dates ==
    {Date_new(d, m, y).v : d \in 0..MaxDay, m \in 0..MaxMonth, y \in Years}

MaxLen == 4
TrimBytes == {0, 32, 65, 66}

RECURSIVE SeqsOfLen(_, _)
SeqsOfLen(S, n) ==
    IF n = 0 THEN {<<>>}
    ELSE {Append(s, b) : s \in SeqsOfLen(S, n - 1), b \in S}

SeqsUpTo(S, n) == UNION {SeqsOfLen(S, k) : k \in 0..n}

\* ---- values handed to write_as
\* years of each number of digits
CodecYears == {0, 1, 9, 10, 99, 100, 999, 1000, 2019, 9999}

CodecDates ==
    {Date_new(d, m, y).v : d \in 0..MaxDay, m \in 0..MaxMonth, y \in CodecYears}

FewDates == {Date_new(1, 1, 2019).v, Date_new(20, 7, 2019).v, Date_new(0, 0, 0).v}

Times == {Time_new(0, 0, 0).v, Time_new(23, 59, 59).v, Time_new(24, 60, 60).v}

Decimal(neg, mant, scale) ==
    [class |-> "finite", neg |-> neg, mant |-> mant, scale |-> scale]

Floats == {Decimal(FALSE, 0, 0), Decimal(FALSE, 32, 0), Decimal(TRUE, 15, 1)}

Ints == {0, 1, -1, 1457, 16909060, I32_MAX, -I32_MAX - 1}

\* 0.0, 32.0, -1.0 and a NaN
F64Bits ==
    {<<0, 0, 0, 0, 0, 0, 0, 0>>, <<64, 64, 0, 0, 0, 0, 0, 0>>,
     <<191, 240, 0, 0, 0, 0, 0, 0>>, <<127, 248, 0, 0, 0, 0, 0, 1>>}

\* "A", "AB", "A B", " A", "A ", U+00E9, U+3042, and U+732B after "A"
Texts ==
    {<<65>>, <<65, 66>>, <<65, 32, 66>>, <<32, 65>>, <<65, 32>>, <<195, 169>>,
     <<227, 129, 130>>, <<65, 231, 140, 171>>}

Encodings == {UTF_8, SHIFT_JIS}

FewValues ==
    {Blank("Character"), Blank("Numeric"), Blank("Float"), Blank("Logical"),
     Blank("Date"), Logical(TRUE), Logical(FALSE)}
    \cup {Character(s) : s \in Texts}
    \cup {Numeric(x) : x \in Floats}
    \cup {Float(x) : x \in Floats}
    \cup {DateValue(d) : d \in FewDates}
    \cup {Integer(n) : n \in Ints}
    \cup {Currency(bits) : bits \in F64Bits}
    \cup {Double(bits) : bits \in F64Bits}
    \cup {DateTime(d, t) : d \in FewDates, t \in Times}
    \cup {Memo(<<>>), Memo(<<65>>)}

\* length of the slot of each type; the types of a fixed size have that size
CharacterLength == 3
NumericLength == 4
MaxDecimals == 1
MemoLengths == {4, 5}

FieldInfos ==
    {FieldInfo("Character", CharacterLength, 0), FieldInfo("Logical", 1, 0),
     FieldInfo("Date", 8, 0), FieldInfo("Integer", 4, 0),
     FieldInfo("Currency", 8, 0), FieldInfo("DateTime", 8, 0),
     FieldInfo("Double", 8, 0)}
    \cup {FieldInfo("Numeric", NumericLength, p) : p \in 0..MaxDecimals}
    \cup {FieldInfo("Float", NumericLength, p) : p \in 0..MaxDecimals}
    \cup {FieldInfo("Memo", l, 0) : l \in MemoLengths}

\* every few value with every descriptor, and every date with a Date descriptor
WriteInputs ==
    (FewValues \X FieldInfos)
    \cup {<<DateValue(d), FieldInfo("Date", 8, 0)>> : d \in CodecDates}

\* ---- slots handed to read_from
MaxSlot == 3
SlotBytes == {0, 32, 42, 45, 46, 49, 97, 102, 105, 110, 120}
TextSlots == UNION {SeqsOfLen(SlotBytes, k) : k \in 1..MaxSlot}

YearParts ==
    {<<32, 32, 32, 32>>, <<50, 48, 49, 57>>, <<50, 48, 32, 57>>, <<43, 50, 48, 49>>,
     <<32, 50, 48, 49>>, <<50, 48, 49, 120>>, <<0, 48, 49, 57>>, <<50, 48, 195, 169>>}
TwoParts ==
    {<<32, 32>>, <<48, 55>>, <<49, 51>>, <<52, 53>>, <<32, 55>>, <<55, 32>>,
     <<43, 55>>, <<120, 55>>, <<55, 0>>}
DateSlots == {y \o m \o d : y \in YearParts, m \in TwoParts, d \in TwoParts}

IntegerSlots == SeqsOfLen({0, 1, 127, 128, 255}, 4)

DateTimeSlots ==
    {I32ToLe(j) \o I32ToLe(w) :
        j \in {0, 1721120, 2458685, 1043250598, -1},
        w \in {0, 86399000, 90060000, 86400001, -1, -3600000}}

MemoSlotBytes == {0, 32, 43, 50, 51, 120}
MemoSlots == UNION {SeqsOfLen(MemoSlotBytes, k) : k \in MemoLengths \cup {3}}

ReadInputs ==
    {<<<<b>>, FieldInfo("Logical", 1, 0)>> : b \in 0..255}
    \cup {<<s, FieldInfo(t, Len(s), 0)>> :
            s \in TextSlots, t \in {"Character", "Numeric", "Float"}}
    \cup {<<s, FieldInfo("Date", 8, 0)>> : s \in DateSlots}
    \cup {<<s, FieldInfo("Integer", 4, 0)>> : s \in IntegerSlots}
    \cup {<<Reverse(bits), FieldInfo(t, 8, 0)>> :
            bits \in F64Bits, t \in {"Currency", "Double"}}
    \cup {<<s, FieldInfo("DateTime", 8, 0)>> : s \in DateTimeSlots}
    \cup {<<s, FieldInfo("Memo", Len(s), 0)>> : s \in MemoSlots}

\* ---- memo files
BlockSize == 3
MaxPayload == 4
MaxIndex == 7
MaxAlloc == 8
MemoFileTypes == {"DbaseMemo", "DbaseMemo4", "FoxBaseMemo"}

\* a byte the dialects give no meaning, zero, and the dialect's sentinel
MemoBytes(memo_type) ==
    CASE memo_type = "DbaseMemo" -> {0, 26, 65}
      [] memo_type = "DbaseMemo4" -> {0, 31, 65}
      [] memo_type = "FoxBaseMemo" -> {0, 65}

\* bytes padded with zeros to whole blocks
Padded(bs) == bs \o Repeat(0, (BlockSize - (Len(bs) % BlockSize)) % BlockSize)

HeaderBytes(memo_type, next) ==
    Padded(I32ToLe(next)
           \o (IF memo_type = "FoxBaseMemo" THEN <<0, 0, 0, BlockSize>>
               ELSE <<BlockSize, 0, 0, 0>>))

\* one memo as the dialect stores it
MemoBytesOf(memo_type, payload) ==
    Padded(CASE memo_type = "DbaseMemo" -> payload \o <<26, 26>>
             [] memo_type = "DbaseMemo4" ->
                  <<255, 255, 8, 0>> \o I32ToLe(Len(payload)) \o payload
             [] memo_type = "FoxBaseMemo" ->
                  <<0, 0, 0, 1>> \o Reverse(I32ToLe(Len(payload))) \o payload)

\* how many of its last bytes a file may lack
Cuts == {0, 1}

\* the header's next available block: the right one, or (in the dialect that
\* reads it, DbaseMemo) 0 as well
NextBlocks(memo_type, blocks) ==
    IF memo_type = "DbaseMemo" THEN {0, blocks} ELSE {blocks}

\* a header, one memo of any payload, one memo of a block of 'B's
MemoFiles(memo_type) ==
    UNION {LET memos == MemoBytesOf(memo_type, payload)
                          \o MemoBytesOf(memo_type, Repeat(66, BlockSize))
               blocks == (Len(HeaderBytes(memo_type, 0)) + Len(memos)) \div BlockSize
           IN  {LET whole == HeaderBytes(memo_type, next) \o memos
                IN  SubSeq(whole, 1, Len(whole) - cut) :
                   next \in NextBlocks(memo_type, blocks), cut \in Cuts} :
        payload \in SeqsUpTo(MemoBytes(memo_type), MaxPayload)}

MemoReaders ==
    UNION {{MemoReader_new(memo_type, src) : src \in MemoFiles(memo_type)} :
            memo_type \in MemoFileTypes}

\* u32::MAX (as its alias) beside the small indices
Indices == 0..MaxIndex \cup {-1}

\* the declared length a FoxBase lookup at `index` would allocate for
FoxBaseLength(self, index) ==
    LET off == U32AsI32(U32MulSmall(U32Of(index), self.header.block_size))
        len == read_exact(self.source, off + 4, 4)
    IN  IF off >= 0 /\ len.kind = "Ok" THEN U32FromBe(len.v) ELSE 0

\* lookups of this model: a FoxBase lookup allocates at most MaxAlloc bytes
InBounds(self, index) ==
    self.memo_file_type = "FoxBaseMemo" =>
        FoxBaseLength(self, index) \in 0..MaxAlloc

\* the same bound for the lookup a Memo slot leads to
MemoInBounds(field_bytes, memo_reader, info) ==
    (info.field_type = "Memo" /\ memo_reader # NoReader /\ Len(field_bytes) >= 4) =>
        LET parsed == parse_u32(from_utf8_lossy(trim_field_data(field_bytes)))
        IN  IF info.field_length > 4
            THEN parsed.kind = "Ok" => InBounds(memo_reader, parsed.v)
            ELSE InBounds(memo_reader, I32FromLe(SubSeq(field_bytes, 1, 4)))

\* the texts of the memo files of the codec component: "AB", and the two
\* bytes of U+3042 in Shift_JIS
CodecPayloads == {<<65, 66>>, <<130, 160>>}

\* the memo readers of the codec component: none, or one of each dialect
CodecReaders ==
    {NoReader}
    \cup {MemoReader_new(memo_type,
            HeaderBytes(memo_type, 0) \o MemoBytesOf(memo_type, payload)) :
          memo_type \in MemoFileTypes, payload \in CodecPayloads}

(***************************************************************************)
(* The table writer's builder.  new_with_label resolves the label to an    *)
(* encoding; a builder exists only when it did, and fields are declared    *)
(* and records written through a builder.                                  *)
(***************************************************************************)
NoBuilder == [encoding |-> NoEncoding, fields |-> <<>>]

\* A variant that falls back to UTF-8 for a label it does not know.
TableWriterBuilder_new_with_label_lenient(label) ==
    LET e == Encoding_for_label(label)
    IN  Ok([encoding |-> IF e = NoEncoding THEN UTF_8 ELSE e, fields |-> <<>>])

TableWriterBuilder_new_with_label(label) ==
    LET e == Encoding_for_label(label)
    IN  IF e = NoEncoding THEN Err("InvalidEncoding", NoBuilder)
        ELSE Ok([encoding |-> e, fields |-> <<>>])

add_character_field(self, length) ==
    [self EXCEPT !.fields = Append(@, FieldInfo("Character", length, 0))]

Labels == {"utf-8", "utf8", "shift_jis", "sjis", "wrong_encoding_label", ""}

FieldLengths == {1, 40, 50}

MaxFields == 2

MaxRecords == 2

(***************************************************************************)
(* The variables a component leaves alone keep these values.               *)
(***************************************************************************)
CalendarIdle == date = NoDate /\ jdn = Ok(0) /\ gdate = Ok(NoDate)

TrimIdle == bytes = <<>> /\ trimmed = <<>>

CodecIdle ==
    /\ field_value = Blank("Character")
    /\ descriptor = FieldInfo("Character", 0, 0)
    /\ dst_before = <<>> /\ dst = <<>>
    /\ write_result = Ok(<<>>)
    /\ slot = <<>>
    /\ read_result = Ok(Blank("Character"))
    /\ text = <<>>
    /\ encoded_text = Ok(<<>>)

MemoIdle == block_index = 0 /\ io_fault = FALSE /\ memo_result = Ok(<<>>)

WriterIdle ==
    encoding_label = "" /\ builder = Ok(NoBuilder) /\ records_written = 0

TimeIdle == time_of_day = NoTime /\ word_written = 0 /\ time_read = Ok(NoTime)

(***************************************************************************)
(* Calendar component: a Date is converted to its Julian day number, and   *)
(* the number back to a Date.                                              *)
(***************************************************************************)
InitCalendar ==
    /\ component = "calendar"
    /\ pc = "start"
    /\ CalendarIdle /\ TrimIdle /\ CodecIdle /\ MemoIdle /\ WriterIdle
    /\ TimeIdle
    /\ table_encoding = UTF_8
    /\ memo = NoReader

ToJulianDayNumber ==
    /\ component = "calendar"
    /\ pc = "start"
    /\ \E d \in Dates :
         /\ date' = d
         /\ jdn' \in to_julian_day_number(d)
    /\ pc' = "to_julian_day_number"
    /\ UNCHANGED <<component, gdate, trim_vars, codec_vars, memo, memo_vars,
                   writer_vars, time_vars>>

FromJulianDayNumber ==
    /\ component = "calendar"
    /\ pc = "to_julian_day_number"
    /\ jdn.kind = "Ok"
    /\ gdate' \in julian_day_number_to_gregorian_date(jdn.v)
    /\ pc' = "julian_day_number_to_gregorian_date"
    /\ UNCHANGED <<component, date, jdn, trim_vars, codec_vars, memo, memo_vars,
                   writer_vars, time_vars>>

NextCalendar == ToJulianDayNumber \/ FromJulianDayNumber

SpecCalendar == InitCalendar /\ [][NextCalendar]_vars

(***************************************************************************)
(* Trim component                                                          *)
(***************************************************************************)
InitTrim ==
    /\ component = "trim"
    /\ pc = "start"
    /\ CalendarIdle /\ TrimIdle /\ CodecIdle /\ MemoIdle /\ WriterIdle
    /\ TimeIdle
    /\ table_encoding = UTF_8
    /\ memo = NoReader

TrimFieldData ==
    /\ component = "trim"
    /\ pc = "start"
    /\ \E bs \in SeqsUpTo(TrimBytes, MaxLen) :
         /\ bytes' = bs
         /\ trimmed' = trim_field_data(bs)
    /\ pc' = "trim_field_data"
    /\ UNCHANGED <<component, calendar_vars, codec_vars, memo, memo_vars,
                   writer_vars, time_vars>>

NextTrim == TrimFieldData

SpecTrim == InitTrim /\ [][NextTrim]_vars

(***************************************************************************)
(* Codec component: a value is written and the destination read back (as   *)
(* the tests do), or a slot is read and the value written again, or a text *)
(* is encoded and the bytes decoded.  The destination is empty, or a slot  *)
(* of the field's length filled with spaces.                               *)
(***************************************************************************)
InitCodec ==
    /\ component = "codec"
    /\ pc = "start"
    /\ CalendarIdle /\ TrimIdle /\ CodecIdle /\ MemoIdle /\ WriterIdle
    /\ TimeIdle
    /\ table_encoding \in Encodings
    /\ memo \in CodecReaders

WriteAs ==
    /\ component = "codec"
    /\ pc = "start"
    /\ \E in \in WriteInputs, prefilled \in BOOLEAN :
         \E r \in write_as(in[1], in[2]) :
            LET before == IF prefilled THEN Repeat(32, in[2].field_length) ELSE <<>>
            IN  /\ field_value' = in[1]
                /\ descriptor' = in[2]
                /\ dst_before' = before
                /\ dst' = CursorWrite(before, r.v)
                /\ write_result' = r
    /\ pc' = "write_as"
    /\ UNCHANGED <<component, calendar_vars, trim_vars, slot, read_result,
                   table_encoding, text, encoded_text, memo, memo_vars,
                   writer_vars, time_vars>>

ReadBack ==
    /\ component = "codec"
    /\ pc = "write_as"
    /\ write_result.kind = "Ok"
    /\ \E o \in read_from(dst, memo, descriptor, table_encoding, FALSE) :
         /\ slot' = dst
         /\ read_result' = o.res
         /\ memo' = o.reader
    /\ pc' = "read_back"
    /\ UNCHANGED <<component, calendar_vars, trim_vars, field_value, descriptor,
                   dst_before, dst, write_result, table_encoding, text, encoded_text,
                   memo_vars, writer_vars, time_vars>>

ReadFrom ==
    /\ component = "codec"
    /\ pc = "start"
    /\ \E in \in ReadInputs :
         /\ MemoInBounds(in[1], memo, in[2])
         /\ \E o \in read_from(in[1], memo, in[2], table_encoding, FALSE) :
              /\ slot' = in[1]
              /\ descriptor' = in[2]
              /\ read_result' = o.res
              /\ memo' = o.reader
    /\ pc' = "read_from"
    /\ UNCHANGED <<component, calendar_vars, trim_vars, field_value, dst_before, dst,
                   write_result, table_encoding, text, encoded_text, memo_vars,
                   writer_vars, time_vars>>

WriteAgain ==
    /\ component = "codec"
    /\ pc = "read_from"
    /\ read_result.kind = "Ok"
    /\ \E r \in write_as(read_result.v, descriptor) :
         LET before == Repeat(32, descriptor.field_length)
         IN  /\ field_value' = read_result.v
             /\ dst_before' = before
             /\ dst' = CursorWrite(before, r.v)
             /\ write_result' = r
    /\ pc' = "write_again"
    /\ UNCHANGED <<component, calendar_vars, trim_vars, descriptor, slot,
                   read_result, table_encoding, text, encoded_text, memo, memo_vars,
                   writer_vars, time_vars>>

\* a text of a Character field is encoded for the table
EncodedBytes ==
    /\ component = "codec"
    /\ pc = "start"
    /\ \E s \in Texts :
         /\ text' = s
         /\ encoded_text' = encoded_bytes(s, table_encoding)
    /\ pc' = "encoded_bytes"
    /\ UNCHANGED <<component, calendar_vars, trim_vars, field_value, descriptor,
                   dst_before, dst, write_result, slot, read_result,
                   table_encoding, memo, memo_vars,
                   writer_vars, time_vars>>

\* the encoded_text bytes are the slot of a Character field of their length
DecodeEncoded ==
    /\ component = "codec"
    /\ pc = "encoded_bytes"
    /\ encoded_text.kind = "Ok"
    /\ LET info == FieldInfo("Character", Len(encoded_text.v), 0)
       IN  \E o \in read_from(encoded_text.v, memo, info, table_encoding, FALSE) :
              /\ slot' = encoded_text.v
              /\ descriptor' = info
              /\ read_result' = o.res
              /\ memo' = o.reader
    /\ pc' = "decode"
    /\ UNCHANGED <<component, calendar_vars, trim_vars, field_value, dst_before, dst,
                   write_result, table_encoding, text, encoded_text, memo_vars,
                   writer_vars, time_vars>>

NextCodec ==
    WriteAs \/ ReadBack \/ ReadFrom \/ WriteAgain \/ EncodedBytes \/ DecodeEncoded

SpecCodec == InitCodec /\ [][NextCodec]_vars

(***************************************************************************)
(* Memo component: a reader is opened on a memo file and blocks are looked *)
(* up one after the other, until a lookup panics.                          *)
(***************************************************************************)
InitMemo ==
    /\ component = "memo"
    /\ pc = "start"
    /\ CalendarIdle /\ TrimIdle /\ CodecIdle /\ MemoIdle /\ WriterIdle
    /\ TimeIdle
    /\ table_encoding = UTF_8
    /\ memo \in MemoReaders

ReadDataAt ==
    /\ component = "memo"
    /\ memo_result.kind # "Panic"
    /\ \E i \in Indices, fault \in BOOLEAN :
         /\ InBounds(memo, i)
         /\ \E o \in read_data_at(memo, i, fault) :
              /\ block_index' = i
              /\ io_fault' = fault
              /\ memo_result' = o.res
              /\ memo' = o.reader
    /\ pc' = "read_data_at"
    /\ UNCHANGED <<component, calendar_vars, trim_vars, codec_vars, writer_vars, time_vars>>

NextMemo == ReadDataAt

SpecMemo == InitMemo /\ [][NextMemo]_vars

(***************************************************************************)
(* Writer component: a builder is asked for by label; fields are declared  *)
(* on the builder and records written once a field is declared.            *)
(***************************************************************************)
InitWriter ==
    /\ component = "writer"
    /\ pc = "start"
    /\ CalendarIdle /\ TrimIdle /\ CodecIdle /\ MemoIdle /\ WriterIdle
    /\ TimeIdle
    /\ table_encoding = UTF_8
    /\ memo = NoReader

NewWithLabel ==
    /\ component = "writer"
    /\ pc = "start"
    /\ \E label \in Labels :
         /\ encoding_label' = label
         /\ builder' = TableWriterBuilder_new_with_label(label)
    /\ pc' = "new_with_label"
    /\ UNCHANGED <<component, calendar_vars, trim_vars, codec_vars, memo, memo_vars,
                   records_written, time_vars>>

\* .unwrap().add_character_field(name, length)
AddCharacterField ==
    /\ component = "writer"
    /\ pc \in {"new_with_label", "add_character_field"}
    /\ builder.kind = "Ok"
    /\ Len(builder.v.fields) < MaxFields
    /\ \E length \in FieldLengths :
         builder' = Ok(add_character_field(builder.v, length))
    /\ pc' = "add_character_field"
    /\ UNCHANGED <<component, calendar_vars, trim_vars, codec_vars, memo, memo_vars,
                   encoding_label, records_written, time_vars>>

\* build_with_dest(dst) and write_record(record)
WriteRecord ==
    /\ component = "writer"
    /\ pc \in {"add_character_field", "write_record"}
    /\ builder.kind = "Ok"
    /\ records_written < MaxRecords
    /\ records_written' = records_written + 1
    /\ pc' = "write_record"
    /\ UNCHANGED <<component, calendar_vars, trim_vars, codec_vars, memo, memo_vars,
                   encoding_label, builder, time_vars>>

NextWriter == NewWithLabel \/ AddCharacterField \/ WriteRecord

SpecWriter == InitWriter /\ [][NextWriter]_vars

(***************************************************************************)
(* Time component: a Time that Time::new accepts is turned into its time   *)
(* word, and the word into a Time again.                                   *)
(***************************************************************************)
InitTime ==
    /\ component = "time"
    /\ pc = "start"
    /\ CalendarIdle /\ TrimIdle /\ CodecIdle /\ MemoIdle /\ WriterIdle
    /\ TimeIdle
    /\ table_encoding = UTF_8
    /\ memo = NoReader

ToTimeWord ==
    /\ component = "time"
    /\ pc = "start"
    /\ \E h \in 0..MaxHours, m \in 0..MaxMinutes, s \in 0..MaxSeconds :
         LET t == Time_new(h, m, s)
         IN  /\ t.kind = "Ok"
             /\ time_of_day' = t.v
             /\ word_written' = to_time_word(t.v)
    /\ pc' = "to_time_word"
    /\ UNCHANGED <<component, calendar_vars, trim_vars, codec_vars, memo, memo_vars,
                   writer_vars, time_read>>

FromWord ==
    /\ component = "time"
    /\ pc = "to_time_word"
    /\ time_read' \in from_word(word_written)
    /\ pc' = "from_word"
    /\ UNCHANGED <<component, calendar_vars, trim_vars, codec_vars, memo, memo_vars,
                   writer_vars, time_of_day, word_written>>

NextTime == ToTimeWord \/ FromWord

SpecTime == InitTime /\ [][NextTime]_vars

(***************************************************************************)
(* All components                                                          *)
(***************************************************************************)
Init ==
    InitCalendar \/ InitTrim \/ InitCodec \/ InitMemo \/ InitWriter \/ InitTime

Next ==
    NextCalendar \/ NextTrim \/ NextCodec \/ NextMemo \/ NextWriter \/ NextTime

Spec == Init /\ [][Next]_vars

(***************************************************************************)
(* Properties                                                              *)
(***************************************************************************)
IsLeapYear(y) == (y % 4 = 0 /\ y % 100 # 0) \/ y % 400 = 0

DaysInMonth(y, m) ==
    CASE m \in {1, 3, 5, 7, 8, 10, 12} -> 31
      [] m \in {4, 6, 9, 11} -> 30
      [] m = 2 -> IF IsLeapYear(y) THEN 29 ELSE 28
      [] OTHER -> 0

\* a date of the Gregorian calendar in the years 1..9999
IsCalendarDate(d) ==
    /\ d.year \in 1..MaxYear
    /\ d.month \in 1..12
    /\ d.day \in 1..DaysInMonth(d.year, d.month)

Date_2019_07_20 == [year |-> 2019, month |-> 7, day |-> 20]

\* C1: for every date of the Gregorian calendar in the years 1..9999,
\* to_julian_day_number returns a number (in every build) and
\* julian_day_number_to_gregorian_date returns the date from it; 2019-07-20
\* has the number 2458685, and 2458685 gives 2019-07-20.
C1_JulianRoundTrip ==
    component = "calendar" =>
        /\ (pc # "start" /\ IsCalendarDate(date)) => jdn.kind = "Ok"
        /\ (pc = "julian_day_number_to_gregorian_date" /\ IsCalendarDate(date))
              => gdate = Ok(date)
        /\ (pc # "start" /\ date = Date_2019_07_20) => jdn = Ok(2458685)
        /\ (pc = "julian_day_number_to_gregorian_date" /\ jdn = Ok(2458685))
              => gdate = Ok(Date_2019_07_20)

C1_Witness ==
    /\ component = "calendar"
    /\ pc = "julian_day_number_to_gregorian_date"
    /\ date = [year |-> 2000, month |-> 2, day |-> 29]
    /\ IsCalendarDate(date)
    /\ jdn = Ok(2451604)
    /\ gdate = Ok(date)

\* C2: when the variant of the value and the type of the descriptor differ,
\* write_as returns IncompatibleType and the destination is as it was.
C2_IncompatibleType ==
    (component = "codec" /\ pc = "write_as"
        /\ field_value.tag # descriptor.field_type)
    => (write_result = Err("IncompatibleType", <<>>) /\ dst = dst_before)

C2_Witness ==
    /\ component = "codec"
    /\ pc = "write_as"
    /\ field_value.tag = "Memo"
    /\ descriptor.field_type = "Date"
    /\ write_result = Err("IncompatibleType", <<>>)
    /\ Len(dst_before) = 8
    /\ dst = dst_before

\* the Logical value the mapping T,t,Y,y,1 / F,f,N,n gives the byte b
LogicalOfByte(b) ==
    CASE b \in {84, 116, 89, 121, 49} -> Logical(TRUE)
      [] b \in {70, 102, 78, 110} -> Logical(FALSE)
      [] OTHER -> Blank("Logical")

\* C3: a Logical slot decodes to true exactly for T, t, Y, y, 1, to false
\* exactly for F, f, N, n, and to the absent value for every other byte.
C3_LogicalMapping ==
    (component = "codec" /\ pc = "read_from" /\ descriptor.field_type = "Logical")
    => read_result = Ok(LogicalOfByte(slot[1]))

\* the bytes before the first 0x00 that are not spaces, as 1-based positions
ContentPositions(bs) ==
    {i \in 1..Len(bs) : bs[i] # 32 /\ \A j \in 1..i : bs[j] # 0}

\* C4: trim_field_data returns the empty slice when no byte before the first
\* 0x00 differs from 0x20, and otherwise the bytes from the first to the last
\* such byte.
C4_TrimFieldData ==
    (component = "trim" /\ pc = "trim_field_data")
    => trimmed = IF ContentPositions(bytes) = {} THEN <<>>
                 ELSE SubSeq(bytes, Min(ContentPositions(bytes)),
                             Max(ContentPositions(bytes)))

C4_Witness ==
    /\ component = "trim"
    /\ pc = "trim_field_data"
    /\ bytes = <<32, 65, 32, 66>>
    /\ trimmed = <<65, 32, 66>>

\* the digit of 10^k in n, as a character
DigitAt(n, k) == 48 + ((n \div Pow10(k)) % 10)

\* YYYYMMDD
DateText(d) ==
    <<DigitAt(d.year, 3), DigitAt(d.year, 2), DigitAt(d.year, 1), DigitAt(d.year, 0),
      DigitAt(d.month, 1), DigitAt(d.month, 0), DigitAt(d.day, 1), DigitAt(d.day, 0)>>

\* C5: a Date value written into a Date descriptor gives the eight bytes
\* YYYYMMDD, which read back as the value; the absent Date gives eight spaces,
\* which read back as the absent Date.
C5_DateRoundTrip ==
    (component = "codec" /\ pc \in {"write_as", "read_back"}
        /\ field_value.tag = "Date" /\ descriptor.field_type = "Date")
    => /\ write_result = Ok(IF field_value.some THEN DateText(field_value.d)
                            ELSE <<32, 32, 32, 32, 32, 32, 32, 32>>)
       /\ dst = write_result.v
       /\ pc = "read_back" => read_result = Ok(field_value)

C5_Witness ==
    /\ component = "codec"
    /\ pc = "read_back"
    /\ field_value = DateValue([year |-> 9, month |-> 1, day |-> 2])
    /\ dst = <<48, 48, 48, 57, 48, 49, 48, 50>>
    /\ read_result = Ok(field_value)

\* C6: a Numeric or Float slot of '*' bytes only, or of spaces only, decodes
\* to the absent value, and writing that value into the slot filled with
\* spaces leaves it all spaces.
C6_NumericSentinel ==
    (component = "codec" /\ pc \in {"read_from", "write_again"}
        /\ descriptor.field_type \in {"Numeric", "Float"}
        /\ (All(slot, 42) \/ All(slot, 32)))
    => /\ read_result = Ok(Blank(descriptor.field_type))
       /\ pc = "write_again" =>
            /\ write_result.kind = "Ok"
            /\ Len(dst) = Len(slot)
            /\ All(dst, 32)

C6_Witness ==
    /\ component = "codec"
    /\ pc = "write_again"
    /\ descriptor.field_type = "Numeric"
    /\ slot = <<42, 42, 42>>
    /\ read_result = Ok(Blank("Numeric"))
    /\ write_result = Ok(<<>>)
    /\ dst = <<32, 32, 32>>

\* ---- a dBase IV memo block of the open file, at the block of the last lookup
BlockOffset == block_index * memo.header.block_size

\* the declared length: the four bytes after the block's first four, little
\* endian (-1 when the file ends before them, or the length is 2^24 or more)
DeclaredLength ==
    IF block_index >= 0 /\ BlockOffset + 8 <= Len(memo.source)
          /\ memo.source[BlockOffset + 8] = 0
    THEN memo.source[BlockOffset + 5] + 256 * memo.source[BlockOffset + 6]
            + 65536 * memo.source[BlockOffset + 7]
    ELSE -1

\* the payload: the DeclaredLength bytes after the eight
BlockPayload == SubSeq(memo.source, BlockOffset + 9, BlockOffset + 8 + DeclaredLength)

SentinelPositions == {i \in 1..Len(BlockPayload) : BlockPayload[i] = 31}

\* C7: a dBase IV lookup of a block whose declared length is at most the
\* block size and whose payload holds 0x1F returns the payload's bytes before
\* the first 0x1F, whatever the lookups before it were.
C7_Memo4Sentinel ==
    (component = "memo" /\ pc = "read_data_at"
        /\ memo.memo_file_type = "DbaseMemo4"
        /\ ~io_fault
        /\ DeclaredLength \in 0..memo.header.block_size
        /\ BlockOffset + 8 + DeclaredLength <= Len(memo.source)
        /\ SentinelPositions # {})
    => memo_result = Ok(SubSeq(BlockPayload, 1, Min(SentinelPositions) - 1))

\* the lookup returned the byte before the sentinel while the buffer still
\* holds a byte of an earlier, longer lookup
C7_Witness ==
    /\ component = "memo"
    /\ pc = "read_data_at"
    /\ memo.memo_file_type = "DbaseMemo4"
    /\ ~io_fault
    /\ DeclaredLength = 2
    /\ BlockPayload = <<65, 31>>
    /\ memo_result = Ok(<<65>>)
    /\ memo.internal_buffer = <<65, 31, 66>>

IsIndexText(s) ==
    LET digits == IF Len(s) > 0 /\ s[1] = 43 THEN Tail(s) ELSE s
    IN  Len(digits) > 0 /\ \A i \in 1..Len(digits) : digits[i] \in 48..57

C9_MemoWriteReturnsError ==
    (component = "codec" /\ pc = "write_as"
        /\ field_value.tag = "Memo" /\ descriptor.field_type = "Memo")
    => (write_result.kind = "Err" /\ dst = dst_before)

\* the four bytes of the two's complement of n, least significant first
LittleEndian4(n) ==
    LET u == IF n < 0 THEN (n + I32_MAX) + 1 ELSE n
        top == (u \div 16777216) + (IF n < 0 THEN 128 ELSE 0)
    IN  <<u % 256, (u \div 256) % 256, (u \div 65536) % 256, top>>

\* C10: an Integer written into an Integer descriptor gives the four bytes
\* of its two's complement, least significant first, which read back as the
\* Integer; every slot of four bytes decodes to a present Integer.
C10_IntegerRoundTrip ==
    component = "codec" =>
        /\ (pc \in {"write_as", "read_back"} /\ field_value.tag = "Integer"
               /\ descriptor.field_type = "Integer")
           => /\ write_result = Ok(LittleEndian4(field_value.n))
              /\ dst = write_result.v
              /\ pc = "read_back" => read_result = Ok(field_value)
        /\ (pc = "read_from" /\ descriptor.field_type = "Integer")
           => /\ read_result.kind = "Ok"
              /\ read_result.v.tag = "Integer"
              /\ read_result.v.some
              /\ LittleEndian4(read_result.v.n) = slot

C10_Witness ==
    /\ component = "codec"
    /\ pc = "read_back"
    /\ field_value = Integer(-I32_MAX - 1)
    /\ descriptor.field_type = "Integer"
    /\ dst = <<0, 0, 0, 128>>
    /\ read_result = Ok(field_value)

\* ---- texts
IsAscii(s) == \A i \in 1..Len(s) : s[i] \in 1..127

\* a non-empty ASCII text without NUL that neither starts nor ends with a space
IsPlainText(s) ==
    /\ Len(s) > 0
    /\ IsAscii(s)
    /\ s[1] # 32
    /\ s[Len(s)] # 32

\* C11: a non-empty ASCII text without NUL and without a leading or trailing
\* space, no longer than the field, written as Character(Some(s)) into a slot
\* of the field's length filled with spaces, is read back from that slot as
\* Character(Some(s)), under either encoding of the table.
C11_CharacterRoundTrip ==
    (component = "codec" /\ pc = "read_back"
        /\ field_value.tag = "Character" /\ field_value.some
        /\ descriptor.field_type = "Character"
        /\ IsPlainText(field_value.s)
        /\ Len(field_value.s) <= descriptor.field_length
        /\ dst_before = Repeat(32, descriptor.field_length))
    => /\ write_result = Ok(field_value.s)
       /\ Len(slot) = descriptor.field_length
       /\ read_result = Ok(field_value)

\* "AB" in a field of three bytes: the slot keeps one space of padding
C11_Witness ==
    /\ component = "codec"
    /\ pc = "read_back"
    /\ table_encoding = SHIFT_JIS
    /\ field_value = Character(<<65, 66>>)
    /\ descriptor = FieldInfo("Character", CharacterLength, 0)
    /\ slot = <<65, 66, 32>>
    /\ read_result = Ok(Character(<<65, 66>>))

\* a text every character of which the encoding of the table can represent
IsRepresentable(s) == ~Encoding_encode(table_encoding, s).unmappable

\* C12: under an encoding other than UTF-8, a text with a multi-byte
\* character that the encoding can represent is encoded by encoded_bytes
\* without error, and the bytes, decoded as a Character slot under the same
\* encoding, give the text back.
C12_EncodingFidelity ==
    (component = "codec" /\ pc \in {"encoded_bytes", "decode"}
        /\ table_encoding # UTF_8
        /\ ~IsAscii(text)
        /\ IsRepresentable(text))
    => /\ encoded_text.kind = "Ok"
       /\ pc = "decode" => read_result = Ok(Character(text))

\* C13: new_with_label fails with InvalidEncoding when the label names no
\* encoding and gives a builder for a known label such as "shift_jis"; after
\* the failure no field is ever declared and no record written.
C13_InvalidEncodingLabel ==
    (component = "writer" /\ pc # "start")
    => /\ Encoding_for_label(encoding_label) = NoEncoding
          => /\ builder = Err("InvalidEncoding", NoBuilder)
             /\ pc = "new_with_label"
             /\ records_written = 0
       /\ Encoding_for_label(encoding_label) # NoEncoding
          => /\ builder.kind = "Ok"
             /\ builder.v.encoding = Encoding_for_label(encoding_label)
       /\ encoding_label = "shift_jis" => builder.kind = "Ok"

\* the wrong label of the test was refused
C13_Witness ==
    /\ component = "writer"
    /\ pc = "new_with_label"
    /\ encoding_label = "wrong_encoding_label"
    /\ builder.kind = "Err"
    /\ builder.err = "InvalidEncoding"

\* C14: a dBase IV lookup of a block whose declared length is at most the
\* block size and whose payload holds no 0x1F returns exactly the payload's
\* bytes, whatever the lookups before it were.
C14_Memo4RunsToLength ==
    (component = "memo" /\ pc = "read_data_at"
        /\ memo.memo_file_type = "DbaseMemo4"
        /\ ~io_fault
        /\ DeclaredLength \in 0..memo.header.block_size
        /\ BlockOffset + 8 + DeclaredLength <= Len(memo.source)
        /\ SentinelPositions = {})
    => memo_result = Ok(BlockPayload)

\* ---- a dBase III memo block of the open file, at the block of the last lookup
\* the read of the block failed: the device failed, or the file ends before
\* the block does
BlockReadFailed ==
    io_fault \/ BlockOffset + memo.header.block_size > Len(memo.source)

\* C15: a dBase III lookup whose read of the block fails, at an index other
\* than that of the last allocated block, returns an error.
C15_TrailingBlockOnly ==
    (component = "memo" /\ pc = "read_data_at"
        /\ memo.memo_file_type = "DbaseMemo"
        /\ memo.header.next_available_block_index >= 1
        /\ block_index # memo.header.next_available_block_index - 1
        /\ BlockReadFailed)
    => memo_result.kind = "Err"

\* the outcomes of the last lookup on a reader newly opened on the same file
FreshResults ==
    {o.res : o \in read_data_at(MemoReader_new(memo.memo_file_type, memo.source),
                                block_index, io_fault)}

\* C16: the outcome of a lookup that the device does not fail is an outcome
\* of the same lookup on a newly opened reader of the same file: it does not
\* depend on the lookups before it.
C16_NoScratchLeak ==
    (component = "memo" /\ pc = "read_data_at" /\ ~io_fault)
    => memo_result \in FreshResults

\* ---- a FoxBase memo block of the open file, at the block of the last lookup
\* the declared length: the four bytes after the block's first four, big
\* endian (-1 when the file ends before them, or the length is 2^16 or more)
FoxDeclaredLength ==
    IF block_index >= 0 /\ BlockOffset + 8 <= Len(memo.source)
          /\ memo.source[BlockOffset + 5] = 0 /\ memo.source[BlockOffset + 6] = 0
    THEN 256 * memo.source[BlockOffset + 7] + memo.source[BlockOffset + 8]
    ELSE -1

FoxPayload == SubSeq(memo.source, BlockOffset + 9, BlockOffset + 8 + FoxDeclaredLength)

NonZeroPositions == {i \in 1..Len(FoxPayload) : FoxPayload[i] # 0}

\* C17: a FoxBase lookup of a block that the file holds in full returns the
\* payload up to its last non-zero byte, and the empty text when the payload
\* is all zero or empty, also when the declared length exceeds the block size.
C17_FoxBaseLastNonZero ==
    (component = "memo" /\ pc = "read_data_at"
        /\ memo.memo_file_type = "FoxBaseMemo"
        /\ ~io_fault
        /\ FoxDeclaredLength >= 0
        /\ BlockOffset + 8 + FoxDeclaredLength <= Len(memo.source))
    => memo_result =
          Ok(IF NonZeroPositions = {} THEN <<>>
             ELSE SubSeq(FoxPayload, 1, Max(NonZeroPositions)))

\* a payload longer than the block, with a zero inside and zeros at its end
C17_Witness ==
    /\ component = "memo"
    /\ pc = "read_data_at"
    /\ memo.memo_file_type = "FoxBaseMemo"
    /\ ~io_fault
    /\ FoxDeclaredLength > memo.header.block_size
    /\ BlockOffset + 8 + FoxDeclaredLength <= Len(memo.source)
    /\ NonZeroPositions # {}
    /\ \E i \in 1..Max(NonZeroPositions) : FoxPayload[i] = 0
    /\ FoxPayload[FoxDeclaredLength] = 0
    /\ memo_result = Ok(SubSeq(FoxPayload, 1, Max(NonZeroPositions)))

\* C18: the scratch buffer is never shorter than the block size; a lookup
\* never shortens it, and lengthens it only in the FoxBase dialect, when the
\* declared length of the block looked up exceeds the buffer's length, to
\* exactly that length.
C18_ScratchBufferLength ==
    /\ [](component = "memo"
            => Len(memo.internal_buffer) >= memo.header.block_size)
    /\ [][component = "memo"
            => /\ Len(memo'.internal_buffer) >= Len(memo.internal_buffer)
               /\ Len(memo'.internal_buffer) # Len(memo.internal_buffer)
                  => /\ memo.memo_file_type = "FoxBaseMemo"
                     /\ FoxDeclaredLength' > Len(memo.internal_buffer)
                     /\ Len(memo'.internal_buffer) = FoxDeclaredLength']_vars

\* a FoxBase lookup has lengthened the buffer to the declared length
C18_Witness ==
    /\ component = "memo"
    /\ pc = "read_data_at"
    /\ memo.memo_file_type = "FoxBaseMemo"
    /\ FoxDeclaredLength > memo.header.block_size
    /\ Len(memo.internal_buffer) = FoxDeclaredLength

\* C19: a dBase IV lookup of a block whose declared length exceeds the
\* length of the scratch buffer returns the bytes or an error; it does not
\* panic.
C19_Memo4NoPanic ==
    (component = "memo" /\ pc = "read_data_at"
        /\ memo.memo_file_type = "DbaseMemo4"
        /\ DeclaredLength > Len(memo.internal_buffer))
    => memo_result.kind \in {"Ok", "Err"}

\* ---- the lookup a Memo slot leads to
\* the block index in the slot: its text as a number, or its four bytes
SlotIndex ==
    IF descriptor.field_length > 4
    THEN parse_u32(from_utf8_lossy(trim_field_data(slot))).v
    ELSE I32FromLe(SubSeq(slot, 1, 4))

\* the bytes the memo file gives for that index, on the reader as opened
LookupData ==
    {o.res.v : o \in {r \in read_data_at(MemoReader_new(memo.memo_file_type,
                                                        memo.source),
                                         SlotIndex, FALSE) : r.res.kind = "Ok"}}

\* C20: the text of a Memo value read through a lookup is the lookup's bytes
\* decoded with the encoding of the table, as the bytes of a Character slot
\* are.
C20_MemoThroughEncoding ==
    (component = "codec" /\ pc = "read_from"
        /\ descriptor.field_type = "Memo" /\ memo # NoReader
        /\ descriptor.field_length >= 4
        /\ (descriptor.field_length = 4 \/ ContentPositions(slot) # {})
        /\ read_result.kind = "Ok")
    => \E data \in LookupData :
          read_result = Ok(Memo(Encoding_decode(table_encoding, data)))

\* ---- the content of the slot of the last read_from
SlotContent ==
    IF ContentPositions(slot) = {} THEN <<>>
    ELSE SubSeq(slot, Min(ContentPositions(slot)), Max(ContentPositions(slot)))

\* a decimal number: an optional sign, digits and at most one '.', with one
\* digit at least
IsDecimalText(s) ==
    LET body == IF Len(s) > 0 /\ s[1] \in {43, 45} THEN Tail(s) ELSE s
    IN  /\ \E i \in 1..Len(body) : body[i] \in 48..57
        /\ \A i \in 1..Len(body) : body[i] \in 48..57 \cup {46}
        /\ Cardinality({i \in 1..Len(body) : body[i] = 46}) <= 1

\* C21: a Numeric or Float slot whose content is not empty, not all '*' and
\* not a number, and a Memo slot of more than four bytes whose content is
\* not empty and not a number, are read as an error.
C21_NumericParseFailure ==
    (component = "codec" /\ pc = "read_from" /\ SlotContent # <<>>)
    => /\ (descriptor.field_type \in {"Numeric", "Float"}
              /\ ~All(SlotContent, 42) /\ ~IsDecimalText(SlotContent))
          => read_result.kind = "Err"
       /\ (descriptor.field_type = "Memo" /\ descriptor.field_length > 4
              /\ ~IsIndexText(SlotContent))
          => read_result.kind = "Err"

\* ---- the three parts of the Date slot of the last read_from
YearText == SubSeq(slot, 1, 4)
MonthText == SubSeq(slot, 5, 6)
DayText == SubSeq(slot, 7, 8)

\* the number an index text stands for
NumberOf(s) == DigitsValue(IF s[1] = 43 THEN Tail(s) ELSE s)

\* C22: a Date slot of eight spaces is read as the absent Date; any other
\* slot is read as the Date of the numbers in its bytes 0..4, 4..6 and 6..8,
\* whatever their range, or as an error when one of the three is not a
\* number; no slot makes the read panic.
C22_DateSlot ==
    (component = "codec" /\ pc = "read_from" /\ descriptor.field_type = "Date")
    => IF All(slot, 32)
       THEN read_result = Ok(Blank("Date"))
       ELSE IF IsIndexText(YearText) /\ IsIndexText(MonthText) /\ IsIndexText(DayText)
       THEN read_result = Ok(DateValue([year |-> NumberOf(YearText),
                                        month |-> NumberOf(MonthText),
                                        day |-> NumberOf(DayText)]))
       ELSE read_result.kind = "Err"

\* C23: the time word of a Time that Time::new accepts gives the Time back.
C23_TimeRoundTrip ==
    (component = "time" /\ pc = "from_word")
    => time_read = Ok(time_of_day)

\* C24: in a lookup the product of the index and the block size stays within
\* 32 bits, and in the dBase III dialect, when the read of the block fails,
\* the index of the last allocated block is computed from a next available
\* block of one at least.
C24_NoWrap ==
    (component = "memo" /\ pc = "read_data_at")
    => /\ ~U32MulSmall(U32Of(block_index), memo.header.block_size).ovf
       /\ (memo.memo_file_type = "DbaseMemo" /\ block_index >= 0 /\ BlockReadFailed)
          => memo.header.next_available_block_index >= 1

\* C25: the Julian day number of a Date that Date::new accepts is computed
\* without leaving the range of u32, and a DateTime of such a Date written
\* into a DateTime descriptor gives eight bytes.
C25_JulianNoOverflow ==
    /\ (component = "calendar" /\ pc # "start")
       => /\ ~julian_u32(date).ovf
          /\ jdn.kind = "Ok"
    /\ (component = "codec" /\ pc = "write_as" /\ field_value.tag = "DateTime"
           /\ descriptor.field_type = "DateTime")
       => /\ write_result.kind = "Ok"
          /\ Len(write_result.v) = 8
====
